---------------------------- MODULE Spec2Model ----------------------------
(***************************************************************************)
(* A state-machine model of the fastwebsockets connection:                 *)
(*   src/src/frame.rs  - Frame, OpCode, fmt_head, write, writev, unmask    *)
(*   src/src/lib.rs    - WebSocket: try_write, write_frame, read_frame,    *)
(*                       parse_frame_header and the policy setters         *)
(* Bytes are the integers 0..255, byte strings are sequences of bytes.     *)
(* The peer is the environment: it picks the frames it puts on the wire,   *)
(* the transport picks how the byte stream is cut into reads.              *)
(***************************************************************************)
EXTENDS Integers, Sequences, FiniteSets, TLC

(***************************************************************************)
(* Bounds of the model.                                                    *)
(***************************************************************************)
\* frames the peer puts on the wire before the last one of its stream
MaxLead == 1
\* a transport read returns 1..MaxChunk bytes, or everything it can
MaxChunk == 2
\* calls other than read_frame the application makes in one run
MaxCalls == 1
\* zero-length reads (end of stream) counted inside one read_frame call
MaxEofReads == 2

(***************************************************************************)
(* Program constants.                                                      *)
(***************************************************************************)
Continuation == 0
Text == 1
Binary == 2
Close == 8
Ping == 9
Pong == 10
MAX_HEAD_SIZE == 10
\* let mut head = [0; 2 + 4 + 100]
HeadCap == 106
\* max_message_size: 64 << 20
DefaultMaxMessageSize == 67108864

(***************************************************************************)
(* Option<Vec<u8>>                                                         *)
(***************************************************************************)
None == [some |-> FALSE, v |-> <<>>]
Some(x) == [some |-> TRUE, v |-> x]

(***************************************************************************)
(* Byte helpers.                                                           *)
(***************************************************************************)
Min(a, b) == IF a < b THEN a ELSE b

Zeros(n) == [i \in 1..n |-> 0]

\* s[from..to) with 0-based, half-open Rust indices
Slice(s, from, to) == SubSeq(s, from + 1, to)

RECURSIVE XorBits(_, _, _)
XorBits(a, b, n) ==
  IF n = 0 THEN 0
  ELSE (((a % 2) + (b % 2)) % 2) + 2 * XorBits(a \div 2, b \div 2, n - 1)

XorByte(a, b) == XorBits(a, b, 8)

\* u16::from_be_bytes
U16FromBE(b) == b[1] * 256 + b[2]

\* usize::from_be_bytes on 8 bytes.  Values of 2^31 and more are all
\* reported as 2^31 - 1: they only ever meet ">= max_message_size", and
\* max_message_size stays below 2^31 in this model.
U64FromBE(b) ==
  IF b[1] # 0 \/ b[2] # 0 \/ b[3] # 0 \/ b[4] # 0 \/ b[5] >= 128
  THEN 2147483647
  ELSE ((b[5] * 256 + b[6]) * 256 + b[7]) * 256 + b[8]

\* (len as u16).to_be_bytes()
U16ToBE(n) == << (n \div 256) % 256, (n % 256) >>

\* (len as u64).to_be_bytes(), for len < 2^31
U64ToBE(n) ==
  << 0, 0, 0, 0, (n \div 16777216) % 256, (n \div 65536) % 256,
     (n \div 256) % 256, n % 256 >>

(***************************************************************************)
(* UTF-8 validation (std::str::from_utf8(..).is_ok()).                     *)
(***************************************************************************)
IsCont(s, i) == i <= Len(s) /\ s[i] >= 128 /\ s[i] <= 191

IsIn(s, i, lo, hi) == i <= Len(s) /\ s[i] >= lo /\ s[i] <= hi

\* length of the well-formed scalar starting at s[i], or 0 when ill-formed
Utf8Width(s, i) ==
  LET b == s[i] IN
  IF b <= 127 THEN 1
  ELSE IF b >= 194 /\ b <= 223 THEN (IF IsCont(s, i + 1) THEN 2 ELSE 0)
  ELSE IF b = 224
    THEN (IF IsIn(s, i + 1, 160, 191) /\ IsCont(s, i + 2) THEN 3 ELSE 0)
  ELSE IF (b >= 225 /\ b <= 236) \/ b = 238 \/ b = 239
    THEN (IF IsCont(s, i + 1) /\ IsCont(s, i + 2) THEN 3 ELSE 0)
  ELSE IF b = 237
    THEN (IF IsIn(s, i + 1, 128, 159) /\ IsCont(s, i + 2) THEN 3 ELSE 0)
  ELSE IF b = 240
    THEN (IF IsIn(s, i + 1, 144, 191) /\ IsCont(s, i + 2) /\ IsCont(s, i + 3)
          THEN 4 ELSE 0)
  ELSE IF b >= 241 /\ b <= 243
    THEN (IF IsCont(s, i + 1) /\ IsCont(s, i + 2) /\ IsCont(s, i + 3)
          THEN 4 ELSE 0)
  ELSE IF b = 244
    THEN (IF IsIn(s, i + 1, 128, 143) /\ IsCont(s, i + 2) /\ IsCont(s, i + 3)
          THEN 4 ELSE 0)
  ELSE 0

IsContByte(b) == b >= 128 /\ b <= 191

\* Valid UTF-8 is a run of well-formed scalars: every byte that is not a
\* continuation byte starts a well-formed scalar, and every continuation
\* byte lies inside the scalar started by the nearest byte before it that
\* is not one.
FromUtf8Ok(s) ==
  \A i \in 1..Len(s) :
    IF IsContByte(s[i])
    THEN \E j \in 1..3 :
           /\ i - j >= 1
           /\ ~IsContByte(s[i - j])
           /\ Utf8Width(s, i - j) > j
    ELSE Utf8Width(s, i) > 0

(***************************************************************************)
(* mask.rs: unmask(buf, key) XORs buf[i] with key[i mod 4].                *)
(***************************************************************************)
MaskUnmask(buf, key) ==
  [i \in 1..Len(buf) |-> XorByte(buf[i], key[((i - 1) % 4) + 1])]

(***************************************************************************)
(* close.rs: CloseCode::from(u16).is_allowed().  Allowed are the standard  *)
(* codes 1000..1003 and 1007..1013 and the registered ranges 3000..4999;   *)
(* 1004, 1005, 1006, 1015, everything below 1000 and the reserved ranges   *)
(* are rejected.                                                           *)
(***************************************************************************)
CloseCodeIsAllowed(code) ==
  \/ code >= 1000 /\ code <= 1003
  \/ code >= 1007 /\ code <= 1013
  \/ code >= 3000 /\ code <= 4999

(***************************************************************************)
(* frame.rs: OpCode                                                        *)
(***************************************************************************)
OpCodes == {Continuation, Text, Binary, Close, Ping, Pong}

\* OpCode::try_from(u8).is_ok()
OpCodeTryFromOk(v) == v \in OpCodes

is_control(opcode) == opcode \in {Close, Ping, Pong}

(***************************************************************************)
(* frame.rs: Frame and its constructors.  mask is an Option<[u8; 4]>.      *)
(***************************************************************************)
FrameNew(fin, opcode, mask, payload) ==
  [fin |-> fin, opcode |-> opcode, mask |-> mask, payload |-> payload]

FrameText(payload) == FrameNew(TRUE, Text, None, payload)

FrameBinary(payload) == FrameNew(TRUE, Binary, None, payload)

FrameClose(code, reason) == FrameNew(TRUE, Close, None, U16ToBE(code) \o reason)

FrameCloseRaw(payload) == FrameNew(TRUE, Close, None, payload)

FramePong(payload) == FrameNew(TRUE, Pong, None, payload)

FrameIsUtf8(f) == FromUtf8Ok(f.payload)

\* Frame::unmask: the payload is XORed with the key; self.mask is only read
FrameUnmask(f) ==
  IF f.mask.some
  THEN [f EXCEPT !.payload = MaskUnmask(f.payload, f.mask.v)]
  ELSE f

\* a head whose short class takes in length 126
FmtHeadShort126(f) ==
  LET b0 == (IF f.fin THEN 128 ELSE 0) + f.opcode
      len == Len(f.payload)
  IN  IF len <= 126 THEN << b0, len >>
      ELSE IF len < 65536 THEN << b0, 126 >> \o U16ToBE(len)
      ELSE << b0, 127 >> \o U64ToBE(len)

\* Frame::fmt_head: the bytes head[..size] it leaves in the head buffer
FmtHead(f) ==
  LET b0 == (IF f.fin THEN 128 ELSE 0) + f.opcode
      len == Len(f.payload)
  IN  IF len < 126 THEN << b0, len >>
      ELSE IF len < 65536 THEN << b0, 126 >> \o U16ToBE(len)
      ELSE << b0, 127 >> \o U64ToBE(len)

\* reserve_enough(buf, len): buf.resize(len, 0) when buf is shorter
ReserveEnough(buf, len) ==
  IF Len(buf) < len THEN buf \o Zeros(len - Len(buf)) ELSE buf

\* Frame::write: text is the returned slice &buf[..size + len], buf the
\* scratch buffer as it is left
FrameWrite(f, buf) ==
  LET len == Len(f.payload)
      grown == ReserveEnough(buf, len + MAX_HEAD_SIZE)
      head == FmtHead(f)
      size == Len(head)
      text == head \o f.payload
  IN  [text |-> text,
       buf |-> text \o Slice(grown, size + len, Len(grown))]

(***************************************************************************)
(* lib.rs: parse_frame_header, as a function of the bytes head[..nread]    *)
(* gathered so far.  The code only moves forward as nread grows, so where  *)
(* it stands is decided by those bytes:                                    *)
(*   "read"  - one of the three `while nread < ..` loops needs a read      *)
(*   "err"   - a header check returns Err(err)                             *)
(*   "exact" - required > nread: read_exact of the missing bytes           *)
(*   "done"  - the frame lies within head[..nread]                         *)
(***************************************************************************)
HdrFin(head) == head[1] \div 128 = 1

\* a header check that looks at rsv1 only
HdrRsv1Only(head) == (head[1] \div 64) % 2 # 0

HdrRsv(head) == (head[1] \div 16) % 8 # 0

HdrOpBits(head) == head[1] % 16

HdrMasked(head) == head[2] \div 128 = 1

HdrLengthCode(head) == head[2] % 128

HdrExtra(head) ==
  IF HdrLengthCode(head) = 126 THEN 2
  ELSE IF HdrLengthCode(head) = 127 THEN 8
  ELSE 0

HdrLength(head) ==
  IF HdrExtra(head) = 2 THEN U16FromBE(Slice(head, 2, 4))
  ELSE IF HdrExtra(head) = 8 THEN U64FromBE(Slice(head, 2, 10))
  ELSE HdrLengthCode(head)

HdrMask(head) ==
  IF HdrMasked(head)
  THEN Some(Slice(head, 2 + HdrExtra(head), 2 + HdrExtra(head) + 4))
  ELSE None

HdrRequired(head) ==
  2 + HdrExtra(head) + (IF HdrMasked(head) THEN 4 ELSE 0) + HdrLength(head)

ParseState(st, err) == [st |-> st, err |-> err]

\* if opcode == OpCode::Ping && length > 125
OversizeControl(opcode, length) == opcode = Ping /\ length > 125

\* a size check that lets a frame of exactly max_message_size through
TooLargeInclusive(length, max) == length > max

\* if length >= self.max_message_size
TooLarge(length, max) == length >= max

ParseStatus(head, max) ==
  LET nread == Len(head) IN
  IF nread < 2 THEN ParseState("read", "")
  ELSE IF HdrRsv(head) THEN ParseState("err", "reserved bits are not zero")
  ELSE IF ~OpCodeTryFromOk(HdrOpBits(head)) THEN ParseState("err", "invalid value")
  ELSE IF nread < 2 + HdrExtra(head) THEN ParseState("read", "")
  ELSE IF HdrMasked(head) /\ nread < 2 + HdrExtra(head) + 4
    THEN ParseState("read", "")
  ELSE IF is_control(HdrOpBits(head)) /\ ~HdrFin(head)
    THEN ParseState("err", "control frame must not be fragmented")
  ELSE IF OversizeControl(HdrOpBits(head), HdrLength(head))
    THEN ParseState("err", "Ping frame too large")
  ELSE IF TooLarge(HdrLength(head), max)
    THEN ParseState("err", "Frame too large")
  ELSE IF HdrRequired(head) > nread THEN ParseState("exact", "")
  ELSE ParseState("done", "")

\* Frame::new(fin, opcode, mask, bytes[required - length..required])
ParsedFrame(bytes) ==
  FrameNew(HdrFin(bytes), HdrOpBits(bytes), HdrMask(bytes),
           Slice(bytes, HdrRequired(bytes) - HdrLength(bytes), HdrRequired(bytes)))

\* an over-read that is kept from one byte too far
LeftoverOffByOne(head) ==
  IF Len(head) > HdrRequired(head)
  THEN Some(Slice(head, HdrRequired(head) + 1, Len(head)))
  ELSE None

\* an over-read that is also kept when nothing was read past the frame
LeftoverEmpty(head) ==
  IF Len(head) >= HdrRequired(head)
  THEN Some(Slice(head, HdrRequired(head), Len(head)))
  ELSE None

\* self.read_buffer = Some(head[required..nread].to_vec()) when nread > required
Leftover(head) ==
  IF Len(head) > HdrRequired(head)
  THEN Some(Slice(head, HdrRequired(head), Len(head)))
  ELSE None

(***************************************************************************)
(* The peer.  A peer frame is what the peer means to send: payload is the  *)
(* application payload before masking, len the length its header declares, *)
(* len7 and lenbytes the header's length fields, rsv the three reserved    *)
(* bits, op the 4-bit opcode field.  A frame whose payload is shorter than *)
(* len is cut off by the end of the stream.                                *)
(***************************************************************************)
PF(fin, rsv, op, ext, len, key, payload) ==
  [fin |-> fin, rsv |-> rsv, op |-> op, len |-> len,
   len7 |-> IF ext = 0 THEN len ELSE IF ext = 2 THEN 126 ELSE 127,
   lenbytes |-> IF ext = 0 THEN <<>>
                ELSE IF ext = 2 THEN U16ToBE(len) ELSE U64ToBE(len),
   key |-> key, payload |-> payload]

K0 == Some(<<0, 0, 0, 0>>)
K1 == Some(<<1, 2, 3, 4>>)
K2 == Some(<<55, 250, 33, 61>>)

PeerFrames ==
  << PF(TRUE, 0, Text, 0, 2, K1, <<72, 105>>),
     PF(TRUE, 0, Text, 0, 2, None, <<195, 40>>),
     PF(TRUE, 0, Text, 0, 2, K2, <<195, 169>>),
     PF(FALSE, 0, Text, 0, 1, None, <<255>>),
     PF(TRUE, 0, Binary, 0, 3, K1, <<1, 2, 3>>),
     PF(TRUE, 0, Continuation, 0, 1, None, <<9>>),
     PF(TRUE, 0, Ping, 0, 0, K0, <<>>),
     PF(TRUE, 0, Ping, 0, 2, K1, <<7, 8>>),
     PF(TRUE, 0, Ping, 2, 126, None, <<>>),
     PF(FALSE, 0, Ping, 0, 0, None, <<>>),
     PF(TRUE, 0, Pong, 0, 1, None, <<5>>),
     PF(TRUE, 0, Pong, 2, 126, None, Zeros(126)),
     PF(TRUE, 0, Close, 0, 0, None, <<>>),
     PF(TRUE, 0, Close, 0, 1, K1, <<3>>),
     PF(TRUE, 0, Close, 0, 2, K1, <<3, 232>>),
     PF(TRUE, 0, Close, 0, 4, None, <<3, 232, 111, 107>>),
     PF(TRUE, 0, Close, 0, 3, K2, <<3, 236, 120>>),
     PF(TRUE, 0, Close, 0, 3, None, <<3, 232, 255>>),
     PF(TRUE, 0, Close, 0, 3, None, <<3, 237, 255>>),
     PF(TRUE, 0, Close, 2, 126, None, <<3, 232>> \o [i \in 1..124 |-> 97]),
     PF(FALSE, 0, Close, 0, 0, None, <<>>),
     PF(TRUE, 0, Close, 0, 2, None, <<11, 184>>),
     PF(TRUE, 0, Close, 0, 2, K1, <<3, 231>>),
     PF(TRUE, 4, Text, 0, 2, K1, <<72, 105>>),
     PF(TRUE, 2, Binary, 0, 0, None, <<>>),
     PF(TRUE, 1, Ping, 0, 0, None, <<>>),
     PF(TRUE, 0, 3, 0, 0, None, <<>>),
     PF(TRUE, 0, 11, 0, 1, K1, <<1>>),
     PF(TRUE, 0, Binary, 8, DefaultMaxMessageSize, None, <<>>),
     PF(TRUE, 0, Binary, 8, DefaultMaxMessageSize - 1, None, <<1, 2>>),
     PF(TRUE, 0, Binary, 8, 2, K1, <<4, 5>>),
     [PF(TRUE, 0, Binary, 8, 2147483647, None, <<>>)
        EXCEPT !.lenbytes = <<128, 0, 0, 0, 0, 0, 0, 0>>],
     PF(TRUE, 0, Text, 2, 3, None, <<97, 98, 99>>),
     PF(FALSE, 0, Text, 0, 1, K1, <<195>>),
     PF(TRUE, 0, Continuation, 0, 1, None, <<169>>),
     PF(FALSE, 0, Continuation, 0, 0, None, <<>>),
     PF(FALSE, 0, Text, 0, 0, K1, <<>>),
     PF(FALSE, 0, Binary, 0, 1, K2, <<1>>) >>

NPeerFrames == Len(PeerFrames)

\* the bytes the peer puts on the wire for one frame
PeerEncode(pf) ==
  << (IF pf.fin THEN 128 ELSE 0) + pf.rsv * 16 + pf.op,
     (IF pf.key.some THEN 128 ELSE 0) + pf.len7 >>
  \o pf.lenbytes
  \o (IF pf.key.some THEN pf.key.v ELSE <<>>)
  \o (IF pf.key.some THEN MaskUnmask(pf.payload, pf.key.v) ELSE pf.payload)

Encoded == [i \in 1..NPeerFrames |-> PeerEncode(PeerFrames[i])]

RECURSIVE StreamOf(_)
StreamOf(w) == IF w = <<>> THEN <<>> ELSE Encoded[Head(w)] \o StreamOf(Tail(w))

\* frames that may come before the last frame of a stream
LeadFrames == {1, 8}

\* the streams the peer may send: up to MaxLead leading frames, then any
\* one frame, then the end of the stream
Wires ==
  { l \o <<i>> : l \in UNION { [1..n -> LeadFrames] : n \in 0..MaxLead },
                 i \in 1..NPeerFrames }

\* what the application passes to try_write and write_frame
OutFrames ==
  { FrameText(<<72, 105>>), FramePong(<<1>>) }

\* what the application passes to set_max_message_size
MaxSizes == {3}

EncodedLen(f) == Len(FmtHead(f)) + Len(f.payload)

\* how many of len bytes a single write may take: none, one, or all
Accepted(len) == {0, 1, len}

(***************************************************************************)
(* State.                                                                  *)
(***************************************************************************)
VARIABLES
  wire,             \* the peer's frames, as indices into PeerFrames
  rpos,             \* bytes of the inbound stream the transport has delivered
  outbound,         \* bytes written to the transport
  write_buffer,     \* WebSocket.write_buffer
  partial_write,    \* WebSocket.partial_write
  read_buffer,      \* WebSocket.read_buffer
  vectored,         \* WebSocket.vectored
  auto_close,       \* WebSocket.auto_close
  auto_pong,        \* WebSocket.auto_pong
  max_message_size, \* WebSocket.max_message_size
  pc,               \* "idle", "parse" (inside read_frame), "failed" (a call
                    \* returned Err), "panicked"
  head,             \* parse_frame_header: head[..nread]
  carried,          \* parse_frame_header: nread as taken from read_buffer
  eof_reads,        \* zero-length reads seen by the running read_frame call
  trace,            \* one event per frame read_frame has dealt with
  calls,            \* setter, try_write and write_frame calls made
  wlog,             \* one event per logged try_write / write_frame call
  collector,        \* FragmentCollector: state, opcode and accumulator
  fc_trace,         \* one event per frame the FragmentCollector has handled
  enc               \* the frame last encoded by Frame::write, and its head

vars ==
  << wire, rpos, outbound, write_buffer, partial_write, read_buffer, vectored,
     auto_close, auto_pong, max_message_size, pc, head, carried, eof_reads,
     trace, calls, wlog, collector, fc_trace, enc >>

\* what only the specifications further down record or drive
aux == << wlog, collector, fc_trace, enc >>

conn == << write_buffer, partial_write, read_buffer >>
policy == << vectored, auto_close, auto_pong, max_message_size >>
reader == << rpos, pc, head, carried, eof_reads, trace >>

Stream == StreamOf(wire)

Avail == Len(Stream) - rpos

\* FragmentCollector::new: no message in progress
IdleCollector == [gathering |-> FALSE, opcode |-> Continuation, acc |-> <<>>]

\* nothing encoded yet
NoEnc == [fin |-> FALSE, opcode |-> Continuation, mask |-> None, len |-> 0,
          done |-> FALSE, head |-> <<>>, text_head |-> <<>>, text_len |-> 0]

AuxInit ==
  /\ wlog = <<>>
  /\ collector = IdleCollector
  /\ fc_trace = <<>>

\* WebSocket::after_handshake, before any byte has come in
AfterHandshake ==
  /\ rpos = 0
  /\ outbound = <<>>
  /\ write_buffer = <<>>
  /\ partial_write = None
  /\ read_buffer = None
  /\ vectored = FALSE
  /\ auto_close = TRUE
  /\ auto_pong = TRUE
  /\ max_message_size = DefaultMaxMessageSize
  /\ pc = "idle"
  /\ head = <<>>
  /\ carried = 0
  /\ eof_reads = 0
  /\ trace = <<>>
  /\ calls = 0
  /\ AuxInit

Init ==
  /\ wire \in Wires
  /\ AfterHandshake
  /\ enc = NoEnc

(***************************************************************************)
(* lib.rs: the policy setters.                                             *)
(***************************************************************************)
set_writev(b) ==
  /\ pc = "idle" /\ calls < MaxCalls
  /\ vectored' = b
  /\ calls' = calls + 1
  /\ UNCHANGED << aux, wire, outbound, conn, auto_close, auto_pong,
                  max_message_size, reader >>

set_auto_close(b) ==
  /\ pc = "idle" /\ calls < MaxCalls
  /\ auto_close' = b
  /\ calls' = calls + 1
  /\ UNCHANGED << aux, wire, outbound, conn, vectored, auto_pong,
                  max_message_size, reader >>

set_auto_pong(b) ==
  /\ pc = "idle" /\ calls < MaxCalls
  /\ auto_pong' = b
  /\ calls' = calls + 1
  /\ UNCHANGED << aux, wire, outbound, conn, vectored, auto_close,
                  max_message_size, reader >>

set_max_message_size(n) ==
  /\ pc = "idle" /\ calls < MaxCalls
  /\ max_message_size' = n
  /\ calls' = calls + 1
  /\ UNCHANGED << aux, wire, outbound, conn, vectored, auto_close, auto_pong,
                  reader >>

(***************************************************************************)
(* lib.rs: write_frame, as the effect of one call on partial_write,        *)
(* write_buffer and the outbound stream.  n is the number of bytes the     *)
(* transport takes in the single write_vectored call of Frame::writev.     *)
(***************************************************************************)
IO(panic, pw, wb, out) == [panic |-> panic, pw |-> pw, wb |-> wb, out |-> out]

\* Frame::writev: todo!() for every opcode but Text
WritevPanics(f) == f.opcode # Text

\* a drain that writes the tail and keeps it pending
WriteFrameDrainKept(pw, wb, out) == IO(FALSE, pw, wb, out \o pw.v)

\* if let Some(partial) = self.partial_write.take() { write_all; return Ok }
WriteFrameDrain(pw, wb, out) == IO(FALSE, None, wb, out \o pw.v)

WriteFrameIO(pw, wb, out, vec, f, n) ==
  IF pw.some THEN WriteFrameDrain(pw, wb, out)
  ELSE IF vec
    THEN IF WritevPanics(f) THEN IO(TRUE, pw, wb, out)
         ELSE IO(FALSE, pw, wb, out \o SubSeq(FmtHead(f) \o f.payload, 1, n))
  ELSE LET w == FrameWrite(f, wb) IN IO(FALSE, pw, w.buf, out \o w.text)

\* the call's effect on the connection and the transport
WriteFrameStep(f, n) ==
  LET io == WriteFrameIO(partial_write, write_buffer, outbound, vectored, f, n)
  IN  /\ partial_write' = io.pw
      /\ write_buffer' = io.wb
      /\ outbound' = io.out
      /\ pc' = IF io.panic THEN "panicked" ELSE "idle"

write_frame(f, n) ==
  /\ pc = "idle" /\ calls < MaxCalls
  /\ WriteFrameStep(f, n)
  /\ calls' = calls + 1
  /\ UNCHANGED << aux, wire, read_buffer, policy, rpos, head, carried,
                  eof_reads, trace >>

(***************************************************************************)
(* lib.rs: try_write.  written is what the callback returns (0 for Err);   *)
(* the callback has put the first written bytes of text on the transport.  *)
(***************************************************************************)
\* a tail that keeps the whole encoding
PartialTailWhole(text, written) ==
  IF written < Len(text) THEN Some(text) ELSE None

\* if written < text.len() { partial_write = Some(text[written..].to_vec()) }
PartialTail(text, written) ==
  IF written < Len(text) THEN Some(Slice(text, written, Len(text))) ELSE None

TryWriteStep(f, written) ==
  IF partial_write.some
  THEN \* assert!(self.partial_write.is_none())
       /\ pc' = "panicked"
       /\ UNCHANGED << outbound, write_buffer, partial_write >>
  ELSE LET w == FrameWrite(f, write_buffer) IN
       /\ write_buffer' = w.buf
       /\ outbound' = outbound \o SubSeq(w.text, 1, Min(written, Len(w.text)))
       /\ partial_write' = PartialTail(w.text, written)
       /\ pc' = "idle"

try_write(f, written) ==
  /\ pc = "idle" /\ calls < MaxCalls
  /\ calls' = calls + 1
  /\ TryWriteStep(f, written)
  /\ UNCHANGED << aux, wire, read_buffer, policy, rpos, head, carried,
                  eof_reads, trace >>

(***************************************************************************)
(* lib.rs: read_frame, the policy match on one parsed and unmasked frame.  *)
(* kind is "ok" (break Ok(frame)), "err" (return Err(err)), "loop" (the    *)
(* loop goes on to the next frame) or "panic"; io is what the write_frame  *)
(* calls made on the way left behind.                                      *)
(***************************************************************************)
Outcome(kind, err, io) == [kind |-> kind, err |-> err, io |-> io]

\* OpCode::Close if self.auto_close
CloseArm(f, ac) == f.opcode = Close /\ ac

\* OpCode::Ping if self.auto_pong
PingArm(f, ap) == f.opcode = Ping /\ ap

\* a text check that does not look at fin
TextRejectedAnyFin(f) == ~FrameIsUtf8(f)

\* if frame.fin && !frame.is_utf8()
TextRejected(f) == f.fin /\ ~FrameIsUtf8(f)

Dispatch(f, pw, wb, out, vec, ac, ap) ==
  LET same == IO(FALSE, pw, wb, out)
      len == Len(f.payload)
      echo == WriteFrameIO(pw, wb, out, vec, FrameCloseRaw(f.payload), 0)
      echoed == IF echo.panic THEN Outcome("panic", "", echo)
                ELSE Outcome("ok", "", echo)
  IN
  IF CloseArm(f, ac) THEN
    IF len = 0 THEN echoed
    ELSE IF len = 1 THEN Outcome("err", "invalid close frame", same)
    ELSE LET code == U16FromBE(Slice(f.payload, 0, 2))
             reason == Slice(f.payload, 2, len)
             reject == WriteFrameIO(pw, wb, out, vec, FrameClose(1002, reason), 0)
         IN  IF ~FromUtf8Ok(reason) THEN Outcome("err", "invalid utf-8", same)
             ELSE IF ~CloseCodeIsAllowed(code)
               THEN IF reject.panic THEN Outcome("panic", "", reject)
                    ELSE Outcome("err", "invalid close code", reject)
             ELSE echoed
  ELSE IF PingArm(f, ap) THEN
    LET pong == WriteFrameIO(pw, wb, out, vec, FramePong(f.payload), 0)
    IN  IF pong.panic THEN Outcome("panic", "", pong)
        ELSE Outcome("loop", "", pong)
  ELSE IF f.opcode = Text THEN
    IF TextRejected(f) THEN Outcome("err", "invalid utf-8", same)
    ELSE Outcome("ok", "", same)
  ELSE IF f.opcode = Pong THEN Outcome("loop", "", same)
  ELSE Outcome("ok", "", same)

(***************************************************************************)
(* The record kept of each frame read_frame has dealt with: the outcome,   *)
(* the frame as read_frame holds it after unmask (has_frame is FALSE when  *)
(* the header was rejected and no frame was built), the bytes the call put *)
(* on the transport for it, what it had read when it rejected a header,    *)
(* how many of its bytes came out of read_buffer, and the connection's     *)
(* settings at that moment.                                                *)
(***************************************************************************)
NoFrame == FrameNew(FALSE, Continuation, None, <<>>)

Event(kind, err, has_frame, f, nread) ==
  [kind |-> kind, err |-> err, has_frame |-> has_frame, frame |-> f,
   wrote |-> Slice(outbound', Len(outbound), Len(outbound')),
   nread |-> nread, carried |-> carried,
   auto_close |-> auto_close, auto_pong |-> auto_pong, vectored |-> vectored,
   max_message_size |-> max_message_size, pending |-> partial_write.some]

NextPc(kind) ==
  IF kind = "ok" THEN "idle"
  ELSE IF kind = "loop" THEN "parse"
  ELSE IF kind = "err" THEN "failed"
  ELSE "panicked"

\* parse_frame_header has returned Ok(frame) from `bytes`, leaving `rest`
\* for read_buffer; read_frame unmasks the frame and dispatches on it.  When
\* the loop goes round, the next parse_frame_header takes read_buffer at once.
FrameDone(bytes, rest) ==
  LET f == FrameUnmask(ParsedFrame(bytes))
      d == Dispatch(f, partial_write, write_buffer, outbound, vectored,
                    auto_close, auto_pong)
  IN  /\ partial_write' = d.io.pw
      /\ write_buffer' = d.io.wb
      /\ outbound' = d.io.out
      /\ pc' = NextPc(d.kind)
      /\ read_buffer' = IF d.kind = "loop" THEN None ELSE rest
      /\ head' = IF d.kind = "loop" THEN rest.v ELSE <<>>
      /\ carried' = IF d.kind = "loop" THEN Len(rest.v) ELSE 0
      /\ eof_reads' = 0
      /\ trace' = Append(trace, Event(d.kind, d.err, TRUE, f, 0))

\* read_frame is called: parse_frame_header takes read_buffer into head
read_frame_call ==
  /\ pc = "idle"
  /\ pc' = "parse"
  /\ head' = read_buffer.v
  /\ carried' = Len(read_buffer.v)
  /\ read_buffer' = None
  /\ eof_reads' = 0
  /\ UNCHANGED << aux, wire, rpos, outbound, write_buffer, partial_write, policy,
                  trace, calls >>

\* self.stream.read(&mut head[nread..]) returns k > 0 bytes
ReadSizes == { k \in 1..Min(Avail, HeadCap - Len(head)) :
                 k <= MaxChunk \/ k = Min(Avail, HeadCap - Len(head)) }

stream_read(k) ==
  /\ pc = "parse"
  /\ ParseStatus(head, max_message_size).st = "read"
  /\ k \in ReadSizes
  /\ head' = head \o SubSeq(Stream, rpos + 1, rpos + k)
  /\ rpos' = rpos + k
  /\ UNCHANGED << aux, wire, outbound, conn, policy, pc, carried, eof_reads,
                  trace, calls >>

\* self.stream.read(..) returns Ok(0) at the end of the stream: nread += 0
\* and the `while nread < ..` loop goes round again
stream_read_eof ==
  /\ pc = "parse"
  /\ ParseStatus(head, max_message_size).st = "read"
  /\ Avail = 0
  /\ eof_reads < MaxEofReads
  /\ eof_reads' = eof_reads + 1
  /\ UNCHANGED << aux, wire, rpos, outbound, conn, policy, pc, head, carried,
                  trace, calls >>

\* one of the header checks returns Err
parse_fail ==
  /\ pc = "parse"
  /\ ParseStatus(head, max_message_size).st = "err"
  /\ pc' = "failed"
  /\ UNCHANGED << aux, wire, rpos, outbound, conn, policy, calls >>
  /\ trace' = Append(trace,
                Event("err", ParseStatus(head, max_message_size).err, FALSE,
                      NoFrame, Len(head)))
  /\ head' = <<>>
  /\ carried' = 0
  /\ eof_reads' = 0

\* required <= nread: the frame is cut out of head
parse_done ==
  /\ pc = "parse"
  /\ ParseStatus(head, max_message_size).st = "done"
  /\ FrameDone(head, Leftover(head))
  /\ UNCHANGED << aux, wire, rpos, policy, calls >>

\* required > nread: read_exact fills new_head[nread..required], or fails
\* with UnexpectedEof when the stream ends first
read_exact ==
  /\ pc = "parse"
  /\ ParseStatus(head, max_message_size).st = "exact"
  /\ LET missing == HdrRequired(head) - Len(head) IN
     IF missing <= Avail
     THEN /\ rpos' = rpos + missing
          /\ FrameDone(head \o SubSeq(Stream, rpos + 1, rpos + missing), None)
     ELSE /\ rpos' = Len(Stream)
          /\ pc' = "failed"
          /\ UNCHANGED << outbound, conn >>
          /\ trace' = Append(trace,
                        Event("err", "unexpected eof", FALSE, NoFrame,
                              Len(head)))
          /\ head' = <<>>
          /\ carried' = 0
          /\ eof_reads' = 0
  /\ UNCHANGED << aux, wire, policy, calls >>

Next ==
  \/ \E b \in BOOLEAN : set_writev(b)
  \/ \E b \in BOOLEAN : set_auto_close(b)
  \/ \E b \in BOOLEAN : set_auto_pong(b)
  \/ \E n \in MaxSizes : set_max_message_size(n)
  \/ \E f \in OutFrames : \E n \in Accepted(EncodedLen(f)) \ {0} :
       write_frame(f, n)
  \/ \E f \in OutFrames : \E n \in Accepted(EncodedLen(f)) : try_write(f, n)
  \/ read_frame_call
  \/ \E k \in ReadSizes : stream_read(k)
  \/ stream_read_eof
  \/ parse_fail
  \/ parse_done
  \/ read_exact

Spec == Init /\ [][Next]_vars

(***************************************************************************)
(* The write side on its own: an application that calls set_writev,       *)
(* try_write and write_frame on a fresh connection, over a transport with  *)
(* short writes.  wlog keeps, for each try_write and write_frame call, the *)
(* frame passed, what was pending and which mode was on when the call was  *)
(* entered, the bytes the call put on the transport, what it left pending, *)
(* and whether it panicked.                                                *)
(***************************************************************************)
\* try_write and write_frame calls the application makes in one run
MaxWrites == 3

\* the frames the application writes: one of each opcode
WriteFrames ==
  { FrameText(<<72, 105>>), FrameBinary(<<1, 2, 3>>),
    FrameNew(FALSE, Continuation, None, <<9>>), FrameClose(1000, <<>>),
    FrameNew(TRUE, Ping, None, <<>>), FramePong(<<1>>) }

WriteEvent(op, f, n) ==
  [op |-> op, frame |-> f, n |-> n, pending |-> partial_write,
   vectored |-> vectored,
   wrote |-> Slice(outbound', Len(outbound), Len(outbound')),
   left |-> partial_write', panic |-> pc' = "panicked"]

WriteInit ==
  /\ wire = <<>>
  /\ AfterHandshake
  /\ enc = NoEnc

SetWritevCall(b) ==
  /\ pc = "idle" /\ calls < MaxWrites
  /\ vectored' = b
  /\ calls' = calls + 1
  /\ UNCHANGED << aux, wire, outbound, conn, auto_close, auto_pong,
                  max_message_size, reader >>

WriteFrameCall(f, n) ==
  /\ pc = "idle" /\ calls < MaxWrites
  /\ WriteFrameStep(f, n)
  /\ calls' = calls + 1
  /\ wlog' = Append(wlog, WriteEvent("write_frame", f, n))
  /\ UNCHANGED << collector, fc_trace, enc, wire, read_buffer, policy, rpos,
                  head, carried, eof_reads, trace >>

TryWriteCall(f, written) ==
  /\ pc = "idle" /\ calls < MaxWrites
  /\ TryWriteStep(f, written)
  /\ calls' = calls + 1
  /\ wlog' = Append(wlog, WriteEvent("try_write", f, written))
  /\ UNCHANGED << collector, fc_trace, enc, wire, read_buffer, policy, rpos,
                  head, carried, eof_reads, trace >>

WriteNext ==
  \/ \E b \in BOOLEAN : SetWritevCall(b)
  \/ \E f \in WriteFrames : \E n \in Accepted(EncodedLen(f)) \ {0} :
       WriteFrameCall(f, n)
  \/ \E f \in WriteFrames : \E n \in Accepted(EncodedLen(f)) :
       TryWriteCall(f, n)

WriteSpec == WriteInit /\ [][WriteNext]_vars

(***************************************************************************)
(* The encoder on its own: Frame::write applied to one frame of each       *)
(* opcode, with and without fin and a mask key, at payload lengths on both *)
(* sides of the length classes.  enc holds the frame's fields, the head    *)
(* fmt_head makes of it and what Frame::write returns: the length of the   *)
(* slice and the bytes it starts with.                                     *)
(***************************************************************************)
\* payload lengths tried above each boundary length
MaxOver == 1

\* the boundary lengths and the lengths next to them
EncLens ==
  { b + d : b \in {0, 124, 126, 65534, 65536}, d \in 0..MaxOver }

EncInit ==
  /\ wire = <<>>
  /\ AfterHandshake
  /\ \E fin \in BOOLEAN, op \in OpCodes, mask \in {None, K1}, len \in EncLens :
       enc = [NoEnc EXCEPT !.fin = fin, !.opcode = op, !.mask = mask,
                           !.len = len]

\* frame.write(&mut self.write_buffer) on a fresh connection
Encode ==
  /\ ~enc.done
  /\ LET f == FrameNew(enc.fin, enc.opcode, enc.mask, Zeros(enc.len))
         w == FrameWrite(f, write_buffer)
     IN  enc' = [enc EXCEPT !.done = TRUE,
                            !.head = FmtHead(f),
                            !.text_head = SubSeq(w.text, 1, Len(FmtHead(f))),
                            !.text_len = Len(w.text)]
  /\ UNCHANGED << wlog, collector, fc_trace, wire, outbound, conn, policy,
                  reader, calls >>

EncNext == Encode

EncSpec == EncInit /\ [][EncNext]_vars

(***************************************************************************)
(* The FragmentCollector on top of the connection (spec 4.4).  Its         *)
(* read_frame loops over the connection's read_frame; each frame that      *)
(* comes back is handled by collect, which returns it, keeps it and reads  *)
(* on, or fails.  fc_trace keeps, for each frame handled, its place in     *)
(* trace, the frame as the connection returned it, the collector before    *)
(* and after, and the outcome.                                             *)
(***************************************************************************)
\* frames the peer sends in one run of the collector
MaxFrags == 3

\* what the peer sends: whole and fragmented messages, control frames in
\* between, and a frame the connection refuses
FragFrames == {1, 6, 8, 15, 24, 34, 35, 36, 37, 38}

FragWires == UNION { [1..n -> FragFrames] : n \in 1..MaxFrags }

Collected(kind, err, f, c) == [kind |-> kind, err |-> err, frame |-> f, next |-> c]

Gathering(opcode, acc) == [gathering |-> TRUE, opcode |-> opcode, acc |-> acc]

\* a collector that hands the last fragment back as it came
CollectLastOnly(c, f) ==
  IF ~c.gathering THEN
    IF f.opcode \in {Text, Binary} THEN
      IF f.fin THEN Collected("ok", "", f, c)
      ELSE Collected("more", "", NoFrame, Gathering(f.opcode, f.payload))
    ELSE IF f.opcode = Continuation
      THEN Collected("err", "unexpected continuation", NoFrame, c)
    ELSE Collected("ok", "", f, c)
  ELSE
    IF f.opcode \in {Text, Binary}
      THEN Collected("err", "expected continuation", NoFrame, c)
    ELSE IF f.opcode = Continuation THEN
      IF ~f.fin
      THEN Collected("more", "", NoFrame, Gathering(c.opcode, c.acc \o f.payload))
      ELSE Collected("ok", "", f, IdleCollector)
    ELSE Collected("ok", "", f, c)

\* a collector that takes any frame in any state
CollectAnyOrder(c, f) ==
  IF f.opcode \in {Text, Binary} /\ f.fin THEN Collected("ok", "", f, c)
  ELSE IF f.opcode \in {Text, Binary}
    THEN Collected("more", "", NoFrame, Gathering(f.opcode, f.payload))
  ELSE IF f.opcode = Continuation THEN
    LET whole == c.acc \o f.payload IN
    IF ~f.fin
    THEN Collected("more", "", NoFrame, Gathering(c.opcode, whole))
    ELSE Collected("ok", "", FrameNew(TRUE, c.opcode, None, whole), IdleCollector)
  ELSE Collected("ok", "", f, c)

\* a collector that stays in its run after the final fragment
CollectStaysOpen(c, f) ==
  IF ~c.gathering THEN
    IF f.opcode \in {Text, Binary} THEN
      IF f.fin THEN Collected("ok", "", f, c)
      ELSE Collected("more", "", NoFrame, Gathering(f.opcode, f.payload))
    ELSE IF f.opcode = Continuation
      THEN Collected("err", "unexpected continuation", NoFrame, c)
    ELSE Collected("ok", "", f, c)
  ELSE
    IF f.opcode \in {Text, Binary}
      THEN Collected("err", "expected continuation", NoFrame, c)
    ELSE IF f.opcode = Continuation THEN
      LET whole == c.acc \o f.payload IN
      IF ~f.fin
      THEN Collected("more", "", NoFrame, Gathering(c.opcode, whole))
      ELSE IF c.opcode = Text /\ ~FromUtf8Ok(whole)
        THEN Collected("err", "invalid utf-8", NoFrame, c)
      ELSE Collected("ok", "", FrameNew(TRUE, c.opcode, None, whole), c)
    ELSE Collected("ok", "", f, c)

\* the state machine of spec 4.4, on one frame f from the connection
Collect(c, f) ==
  IF ~c.gathering THEN
    \* Idle
    IF f.opcode \in {Text, Binary} THEN
      IF f.fin THEN Collected("ok", "", f, c)
      ELSE Collected("more", "", NoFrame, Gathering(f.opcode, f.payload))
    ELSE IF f.opcode = Continuation
      THEN Collected("err", "unexpected continuation", NoFrame, c)
    ELSE Collected("ok", "", f, c)
  ELSE
    \* Gathering(c.opcode)
    IF f.opcode \in {Text, Binary}
      THEN Collected("err", "expected continuation", NoFrame, c)
    ELSE IF f.opcode = Continuation THEN
      LET whole == c.acc \o f.payload IN
      IF ~f.fin
      THEN Collected("more", "", NoFrame, Gathering(c.opcode, whole))
      ELSE IF c.opcode = Text /\ ~FromUtf8Ok(whole)
        THEN Collected("err", "invalid utf-8", NoFrame, c)
      ELSE Collected("ok", "", FrameNew(TRUE, c.opcode, None, whole),
                     IdleCollector)
    ELSE Collected("ok", "", f, c)

\* the connection has returned a frame the collector has not handled yet
Unhandled ==
  /\ pc = "idle" /\ Len(trace) > 0
  /\ IF fc_trace = <<>> THEN TRUE
     ELSE fc_trace[Len(fc_trace)].at < Len(trace)

FragInit ==
  /\ wire \in FragWires
  /\ AfterHandshake
  /\ enc = NoEnc

\* FragmentCollector::read_frame calls self.ws.read_frame()
collector_read_frame ==
  /\ ~Unhandled
  /\ read_frame_call

\* ... and deals with the frame that comes back
collect ==
  /\ Unhandled
  /\ LET f == trace[Len(trace)].frame
         r == Collect(collector, f)
     IN  /\ collector' = r.next
         /\ pc' = IF r.kind = "err" THEN "failed" ELSE "idle"
         /\ fc_trace' = Append(fc_trace,
                           [at |-> Len(trace), got |-> f, before |-> collector,
                            after |-> r.next, kind |-> r.kind, err |-> r.err,
                            frame |-> r.frame])
  /\ UNCHANGED << wlog, enc, wire, outbound, conn, policy, rpos, head,
                  carried, eof_reads, trace, calls >>

FragNext ==
  \/ collector_read_frame
  \/ \E k \in ReadSizes : stream_read(k)
  \/ stream_read_eof
  \/ parse_fail
  \/ parse_done
  \/ read_exact
  \/ collect

FragSpec == FragInit /\ [][FragNext]_vars

(***************************************************************************)
(* Properties.  The i-th event of trace is what read_frame made of the     *)
(* i-th frame the peer sent.                                               *)
(***************************************************************************)
PeerAt(i) == PeerFrames[wire[i]]

Seen == 1..Min(Len(trace), Len(wire))

\* a frame as it goes out on the wire
WireBytes(f) == FmtHead(f) \o f.payload

\* the header checks other than the size check let the peer's frame through
HeaderAccepted(pf) ==
  /\ pf.rsv = 0
  /\ pf.op \in {0, 1, 2, 8, 9, 10}
  /\ ~(pf.op \in {8, 9, 10} /\ ~pf.fin)
  /\ ~(pf.op = 9 /\ pf.len > 125)

\* a close payload read_frame accepts: empty, or an allowed code followed
\* by a valid UTF-8 reason
CloseAccepted(p) ==
  \/ Len(p) = 0
  \/ /\ Len(p) >= 2
     /\ CloseCodeIsAllowed(p[1] * 256 + p[2])
     /\ FromUtf8Ok(SubSeq(p, 3, Len(p)))

\* C1: every Ping read while auto_pong is on has its Pong, with the Ping's
\* payload, written to the transport before read_frame goes on, and is not
\* returned to the caller, in every reachable state of the connection.
C1_PongForEveryPing ==
  \A i \in Seen :
    LET e == trace[i]
        pf == PeerAt(i)
    IN  (e.has_frame /\ pf.op = Ping /\ e.auto_pong) =>
          /\ e.kind = "loop"
          /\ e.wrote = WireBytes(FramePong(pf.payload))

\* C2: with auto_close on, an accepted Close frame is echoed with the peer's
\* payload byte for byte and then returned to the caller.
C2_CloseEchoed ==
  \A i \in Seen :
    LET e == trace[i]
        pf == PeerAt(i)
    IN  (e.has_frame /\ pf.op = Close /\ e.auto_close /\ CloseAccepted(pf.payload)) =>
          /\ e.kind = "ok"
          /\ e.frame.payload = pf.payload
          /\ e.wrote = WireBytes(FrameCloseRaw(pf.payload))

\* C3: a Close frame of two bytes or more with a disallowed code is answered
\* by a Close 1002 carrying the peer's reason, then read_frame fails with
\* "invalid close code"; so whatever auto_close is.  (Stated for reasons
\* that are valid UTF-8: the reason is validated before the code is looked
\* at.)
C3_DisallowedCloseRejected ==
  \A i \in Seen :
    LET e == trace[i]
        pf == PeerAt(i)
    IN  (/\ e.has_frame /\ pf.op = Close /\ Len(pf.payload) >= 2
         /\ ~CloseCodeIsAllowed(pf.payload[1] * 256 + pf.payload[2])
         /\ FromUtf8Ok(SubSeq(pf.payload, 3, Len(pf.payload)))) =>
          /\ e.kind = "err"
          /\ e.err = "invalid close code"
          /\ e.wrote = WireBytes(FrameClose(1002, SubSeq(pf.payload, 3, Len(pf.payload))))

\* C4: a Close frame with a one-byte payload makes read_frame fail with
\* "invalid close frame", with nothing written, whatever auto_close is.
C4_OneByteCloseFails ==
  \A i \in Seen :
    LET e == trace[i]
        pf == PeerAt(i)
    IN  (e.has_frame /\ pf.op = Close /\ Len(pf.payload) = 1) =>
          /\ e.kind = "err"
          /\ e.err = "invalid close frame"
          /\ e.wrote = <<>>

\* C5: every control frame read_frame returns or handles itself has fin set
\* and at most 125 bytes of payload; a control frame with fin clear or a
\* declared length above 125 makes read_frame fail.
C5_ControlFramesSmallAndFinal ==
  \A i \in Seen :
    LET e == trace[i]
        pf == PeerAt(i)
    IN  /\ (e.has_frame /\ is_control(e.frame.opcode) /\ e.kind \in {"ok", "loop"}) =>
             (e.frame.fin /\ Len(e.frame.payload) <= 125)
        /\ (pf.rsv = 0 /\ pf.op \in {8, 9, 10} /\ (~pf.fin \/ pf.len > 125)) =>
             e.kind = "err"

\* C6: every frame read_frame returns has no mask key attached.
C6_ReturnedFrameHasNoMask ==
  \A i \in Seen : trace[i].kind = "ok" => ~trace[i].frame.mask.some

\* bytes of the stream taken up by the peer's first n frames
RECURSIVE Consumed(_)
Consumed(n) == IF n = 0 THEN 0 ELSE Consumed(n - 1) + Len(Encoded[wire[n]])

\* the peer's frame is one read_frame hands to its caller
Surfaced(pf, ap) ==
  pf.op \in {Continuation, Text, Binary, Close} \/ (pf.op = Ping /\ ~ap)

\* C7: however the transport cuts the stream into reads, the frames
\* read_frame deals with are the peer's frames in wire order, each with its
\* own fin, opcode and unmasked payload; the ones returned are the ones to
\* be surfaced, none is skipped or seen twice, and between calls the bytes
\* taken from the stream are exactly those of the frames dealt with.
C7_FramesInWireOrder ==
  /\ Len(trace) <= Len(wire)
  /\ \A i \in Seen :
       LET e == trace[i]
           pf == PeerAt(i)
       IN  /\ e.has_frame =>
                /\ e.frame.fin = pf.fin
                /\ e.frame.opcode = pf.op
                /\ e.frame.payload = pf.payload
           /\ e.kind = "ok" => Surfaced(pf, e.auto_pong)
           /\ e.kind = "loop" => ~Surfaced(pf, e.auto_pong)
  /\ (pc = "idle" /\ Len(trace) <= Len(wire)) =>
       rpos - Len(read_buffer.v) = Consumed(Len(trace))

\* two frames came in one read: the first was returned, and the second,
\* masked and not empty, was returned by the next call out of read_buffer
C7_Witness ==
  /\ Len(trace) = 2
  /\ trace[1].kind = "ok" /\ trace[2].kind = "ok"
  /\ trace[2].carried = Len(Encoded[wire[2]])
  /\ trace[2].frame.mask.some
  /\ trace[2].frame.payload = PeerAt(2).payload
  /\ trace[2].frame.payload # <<>>

\* C8: a returned final Text frame is valid UTF-8; a final Text frame that
\* is not valid UTF-8 fails with "invalid utf-8"; a Text frame with fin
\* clear is returned as it is, valid or not.
C8_FinalTextIsUtf8 ==
  \A i \in Seen :
    LET e == trace[i]
        pf == PeerAt(i)
    IN  /\ (e.kind = "ok" /\ e.frame.opcode = Text /\ e.frame.fin) =>
             FromUtf8Ok(e.frame.payload)
        /\ (e.has_frame /\ pf.op = Text /\ pf.fin /\ ~FromUtf8Ok(pf.payload)) =>
             (e.kind = "err" /\ e.err = "invalid utf-8")
        /\ (e.has_frame /\ pf.op = Text /\ ~pf.fin) =>
             (e.kind = "ok" /\ e.frame.payload = pf.payload)

\* a valid final Text frame was returned, then an invalid one was refused
C8_Witness ==
  /\ Len(trace) = 2
  /\ trace[1].kind = "ok" /\ trace[1].frame.opcode = Text /\ trace[1].frame.fin
  /\ PeerAt(2).op = Text /\ PeerAt(2).fin /\ ~FromUtf8Ok(PeerAt(2).payload)
  /\ trace[2].kind = "err" /\ trace[2].err = "invalid utf-8"

\* bytes of the peer's frame that come before its payload
HeaderLen(pf) == 2 + Len(pf.lenbytes) + (IF pf.key.some THEN 4 ELSE 0)

\* C9 as stated: every frame declaring max_message_size bytes or more fails
\* with "Frame too large" before any payload byte is read, and no returned
\* frame has that many bytes.
C9_Original ==
  \A i \in Seen :
    LET e == trace[i]
        pf == PeerAt(i)
    IN  /\ pf.len >= e.max_message_size =>
             /\ e.kind = "err"
             /\ e.err = "Frame too large"
             /\ e.nread <= HeaderLen(pf)
        /\ e.kind = "ok" => Len(e.frame.payload) < e.max_message_size

\* C9 amended: max_message_size is 64 MiB until set_max_message_size is
\* called; every frame declaring max_message_size bytes or more makes
\* read_frame fail with no frame built and nothing written, and with "Frame
\* too large" unless an earlier header check refuses the frame; no returned
\* frame has max_message_size bytes or more.
C9_StrictSizeBound ==
  /\ calls = 0 => max_message_size = 64 * 1048576
  /\ \A i \in Seen :
       LET e == trace[i]
           pf == PeerAt(i)
       IN  /\ pf.len >= e.max_message_size =>
                /\ e.kind = "err"
                /\ ~e.has_frame
                /\ e.wrote = <<>>
                /\ HeaderAccepted(pf) => e.err = "Frame too large"
           /\ e.kind = "ok" => Len(e.frame.payload) < e.max_message_size

\* a frame declaring exactly the default 64 MiB was refused
C9_Witness ==
  \E i \in Seen :
    /\ PeerAt(i).len = 64 * 1048576
    /\ trace[i].max_message_size = 64 * 1048576
    /\ trace[i].kind = "err" /\ trace[i].err = "Frame too large"

\* C10: a frame with a reserved bit set or an opcode outside the six makes
\* read_frame fail; no frame is built from it and nothing is written; every
\* returned frame has one of the six opcodes.
C10_ReservedBitsAndOpcode ==
  \A i \in Seen :
    LET e == trace[i]
        pf == PeerAt(i)
    IN  /\ (pf.rsv # 0 \/ pf.op \notin {0, 1, 2, 8, 9, 10}) =>
             /\ e.kind = "err"
             /\ e.err \in {"reserved bits are not zero", "invalid value"}
             /\ ~e.has_frame
             /\ e.wrote = <<>>
        /\ e.kind = "ok" => e.frame.opcode \in {0, 1, 2, 8, 9, 10}

\* after a frame was answered with a Pong, a frame with rsv2 set was refused
C10_Witness ==
  /\ Len(trace) = 2
  /\ trace[1].kind = "loop" /\ trace[1].wrote # <<>>
  /\ PeerAt(2).rsv = 2
  /\ trace[2].kind = "err" /\ trace[2].err = "reserved bits are not zero"
  /\ trace[2].wrote = <<>>

(***************************************************************************)
(* Properties of the write side, over wlog.                                *)
(***************************************************************************)
WriteCalls(op) == { i \in 1..Len(wlog) : wlog[i].op = op }

C12_DrainThenReturn ==
  /\ \A i \in WriteCalls("write_frame") :
       LET e == wlog[i] IN
       /\ e.pending.some => (~e.panic /\ e.wrote = e.pending.v)
       /\ ~e.panic => ~e.left.some
  /\ partial_write.some =>
       /\ Len(wlog) > 0
       /\ wlog[Len(wlog)].op = "try_write"
       /\ wlog[Len(wlog)].left = partial_write

\* a short try_write was followed by a write_frame that wrote the pending
\* three bytes and not the Binary frame it was given
C12_Witness ==
  /\ Len(wlog) = 2
  /\ wlog[1].op = "try_write" /\ wlog[1].left = Some(<<2, 72, 105>>)
  /\ wlog[2].op = "write_frame" /\ wlog[2].frame.opcode = Binary
  /\ wlog[2].wrote = <<2, 72, 105>>
  /\ ~partial_write.some
  /\ outbound = <<129, 2, 72, 105>>

\* C13: no write_frame call aborts, whatever the opcode and the mode; with
\* vectored writes on and nothing pending, a control frame goes out whole.
C13_NoAbortOnOpcode ==
  \A i \in WriteCalls("write_frame") :
    LET e == wlog[i] IN
    /\ ~e.panic
    /\ (e.vectored /\ ~e.pending.some /\ is_control(e.frame.opcode)) =>
         e.wrote = WireBytes(e.frame)

\* C20: a write_frame call entered with nothing pending that returns has
\* put the whole encoding of its frame on the transport, in both modes.
C20_WholeFrameWritten ==
  \A i \in WriteCalls("write_frame") :
    LET e == wlog[i] IN
    (~e.pending.some /\ ~e.panic) => e.wrote = WireBytes(e.frame)

(***************************************************************************)
(* Properties of the encoder, over enc.                                    *)
(***************************************************************************)
\* C14: the head of an encoded frame starts with (fin << 7) | opcode, has
\* the mask bit clear also when the frame carries a key, and is 2 bytes
\* with the length in byte 1 below 126, 4 bytes with 126 and a big-endian
\* u16 below 65536, 10 bytes with 127 and a big-endian u64 from there on;
\* Frame::write returns that head followed by the payload.
C14_HeadEncoding ==
  enc.done =>
    LET h == enc.head
        L == enc.len
    IN  /\ h[1] = (IF enc.fin THEN 128 ELSE 0) + enc.opcode
        /\ h[2] < 128
        /\ L < 126 => (Len(h) = 2 /\ h[2] = L)
        /\ (L >= 126 /\ L < 65536) =>
             /\ Len(h) = 4 /\ h[2] = 126
             /\ h[3] * 256 + h[4] = L /\ h[3] < 256 /\ h[4] < 256
        /\ L >= 65536 =>
             /\ Len(h) = 10 /\ h[2] = 127
             /\ h[3] = 0 /\ h[4] = 0 /\ h[5] = 0 /\ h[6] = 0
             /\ ((h[7] * 256 + h[8]) * 256 + h[9]) * 256 + h[10] = L
             /\ \A k \in 7..10 : h[k] < 256
        /\ L \in {0, 125} => Len(h) = 2
        /\ L \in {126, 65535} => Len(h) = 4
        /\ L = 65536 => Len(h) = 10
        /\ enc.text_head = h
        /\ enc.text_len = Len(h) + L

\* a final Text frame of 65536 bytes carrying a mask key was encoded with a
\* 10-byte head
C14_Witness ==
  /\ enc.done /\ enc.len = 65536 /\ enc.mask.some
  /\ enc.head = <<129, 127, 0, 0, 0, 0, 0, 1, 0, 0>>

(***************************************************************************)
(* Properties of the FragmentCollector, over fc_trace.  The event with     *)
(* at = n is what the collector made of the peer's n-th frame.             *)
(***************************************************************************)
IsFirst(pf) == pf.op \in {Text, Binary} /\ ~pf.fin

IsLast(pf) == pf.op = Continuation /\ pf.fin

\* the first fragments before the peer's n-th frame whose message has not
\* ended before it
Starts(n) ==
  { j \in 1..(n - 1) :
      IsFirst(PeerAt(j)) /\ \A k \in (j + 1)..(n - 1) : ~IsLast(PeerAt(k)) }

\* a fragmented message is in progress when the peer's n-th frame comes
InRun(n) == Starts(n) # {}

RunStart(n) == CHOOSE j \in Starts(n) : TRUE

\* the payloads of the data frames among the peer's frames j..n, in order
RECURSIVE Joined(_, _)
Joined(j, n) ==
  IF j > n THEN <<>>
  ELSE (IF PeerAt(j).op \in {Continuation, Text, Binary}
        THEN PeerAt(j).payload ELSE <<>>) \o Joined(j + 1, n)

\* C15: the collector never returns a Continuation frame; a final data
\* frame read while idle and every control frame come back unchanged; the
\* final Continuation of a run comes back as one final frame with the
\* opcode of the first fragment and the payloads of all fragments joined in
\* arrival order, whatever control frames came in between, and a Text
\* message that is not valid UTF-8 as a whole fails instead.
C15_WholeMessages ==
  \A i \in 1..Len(fc_trace) :
    LET e == fc_trace[i]
        n == e.at
        pf == PeerAt(n)
    IN  /\ e.kind = "ok" => e.frame.opcode # Continuation
        /\ (pf.op \in {Text, Binary} /\ pf.fin /\ ~InRun(n)) =>
             /\ e.kind = "ok" /\ e.frame = e.got
             /\ e.frame.opcode = pf.op /\ e.frame.payload = pf.payload
        /\ is_control(pf.op) => (e.kind = "ok" /\ e.frame = e.got)
        /\ (IsLast(pf) /\ InRun(n)) =>
             LET whole == Joined(RunStart(n), n)
                 T == PeerAt(RunStart(n)).op
             IN  IF T = Text /\ ~FromUtf8Ok(whole)
                 THEN e.kind = "err" /\ e.err = "invalid utf-8"
                 ELSE e.kind = "ok" /\ e.frame = FrameNew(TRUE, T, None, whole)

\* a Text message came in two fragments with a Close frame surfaced in
\* between, and was returned whole
C15_Witness ==
  /\ Len(fc_trace) = 3
  /\ fc_trace[1].kind = "more"
  /\ fc_trace[2].kind = "ok" /\ fc_trace[2].frame.opcode = Close
  /\ fc_trace[3].kind = "ok"
  /\ fc_trace[3].frame = FrameNew(TRUE, Text, None, <<195, 169>>)

\* C16: a Continuation frame handed to the collector while no message is in
\* progress fails with "unexpected continuation", a Text or Binary frame
\* handed to it while one is in progress fails with "expected
\* continuation"; no frame is returned in either case.
C16_FragmentOrdering ==
  \A i \in 1..Len(fc_trace) :
    LET e == fc_trace[i]
        n == e.at
        pf == PeerAt(n)
    IN  /\ (pf.op = Continuation /\ ~InRun(n)) =>
             /\ e.kind = "err" /\ e.err = "unexpected continuation"
             /\ e.frame = NoFrame
        /\ (pf.op \in {Text, Binary} /\ InRun(n)) =>
             /\ e.kind = "err" /\ e.err = "expected continuation"
             /\ e.frame = NoFrame

\* after the first fragment of a Binary message and a Ping, a whole Text
\* frame was refused
C16_Witness ==
  /\ Len(fc_trace) = 2 /\ Len(trace) = 3
  /\ fc_trace[1].kind = "more" /\ fc_trace[1].got.opcode = Binary
  /\ trace[2].kind = "loop"
  /\ fc_trace[2].got.opcode = Text /\ fc_trace[2].got.fin
  /\ fc_trace[2].kind = "err" /\ fc_trace[2].err = "expected continuation"
  /\ pc = "failed"

\* the collector has not failed
CollectorAlive ==
  fc_trace # <<>> => fc_trace[Len(fc_trace)].kind # "err"

\* the peer's frames the collector has handled so far
HandledUpTo == IF fc_trace = <<>> THEN 0 ELSE fc_trace[Len(fc_trace)].at

\* a fragmented message is in progress after the frames handled so far
RunOpen == InRun(HandledUpTo + 1)

C17_ReadBufferHoldsNextBytes ==
  /\ read_buffer.some =>
       /\ pc # "parse"
       /\ Len(read_buffer.v) > 0
       /\ Len(read_buffer.v) <= HeadCap
       /\ Len(trace) > 0 /\ Len(trace) < Len(wire)
       /\ trace[Len(trace)].has_frame
       /\ read_buffer.v = SubSeq(Stream, Consumed(Len(trace)) + 1, rpos)
       /\ LET next == Encoded[wire[Len(trace) + 1]]
              m == Min(Len(read_buffer.v), Len(next))
          IN  SubSeq(read_buffer.v, 1, m) = SubSeq(next, 1, m)
  /\ (pc = "parse" /\ Len(trace) <= Len(wire)) =>
       /\ ~read_buffer.some
       /\ carried <= Len(head)
       /\ head = SubSeq(Stream, Consumed(Len(trace)) + 1, rpos)

\* the first read took the staging buffer's 106 bytes: the first frame and
\* 98 bytes of a 130-byte frame, which were kept and parsed first by the
\* next header parse
C17_Witness ==
  /\ Len(trace) = 2
  /\ trace[1].has_frame /\ trace[2].has_frame
  /\ trace[2].carried = 98
  /\ Len(trace[2].frame.payload) = 126

\* C19: read_frame does not go on reading after a read has returned 0
\* bytes while the header is incomplete: the call has ended with an error.
C19_EndOfStreamEndsCall ==
  eof_reads > 0 => pc = "failed"

====
